---- MODULE Spec2Model ----
(***************************************************************************)
(* principal.py: a Streamlit script.  Every interaction (upload, removal   *)
(* of the upload, species selection, plain rerun) executes the script from *)
(* line 1 to the end or to the first exception.  The state kept between    *)
(* runs is the uploaded file and the selectbox value; everything else is   *)
(* rebuilt by the run.  The variables below hold the script's variables    *)
(* and the elements rendered by the most recent run.                       *)
(***************************************************************************)
EXTENDS Integers, Sequences, FiniteSets, TLC

VARIABLES archivo_registros_presencia, status, linea, llamadas, rendered,
          asp, lista_especies, filtro_especie, registros_presencia,
          asp_registros, tabla, registros_presencia_grp_anio,
          registros_presencia_grp_mes, asp_registros_grafico

vars == <<archivo_registros_presencia, status, linea, llamadas, rendered,
          asp, lista_especies, filtro_especie, registros_presencia,
          asp_registros, tabla, registros_presencia_grp_anio,
          registros_presencia_grp_mes, asp_registros_grafico>>

(***************************************************************************)
(* Bounds of the model and constants of the program.                       *)
(***************************************************************************)
MaxRecords == 2
NAreasAnidadas == 16
TopN == 15

\* Python None (selectbox over an empty list), an empty cell of a text
\* column, an empty cell of a numeric column, and pandas' NaT.
None == "None"
NaN == "NaN"
NaNNum == -1
NaT == [year |-> 0, month |-> 0, day |-> 0]

Columnas == {"species", "family", "eventDate", "locality", "occurrenceID",
             "gbifID", "decimalLatitude", "decimalLongitude"}

\* Lexicographic order of the species names, as Python compares str.
OrdenLex == <<"Panthera onca", "Puma concolor">>
Rango(s) == CHOOSE i \in 1..Len(OrdenLex) : OrdenLex[i] = s

(***************************************************************************)
(* Small helpers on sequences and sets.                                    *)
(***************************************************************************)
RECURSIVE Concat(_)
Concat(ss) == IF ss = <<>> THEN <<>> ELSE Head(ss) \o Concat(Tail(ss))

RECURSIVE Suma(_)
Suma(s) == IF s = <<>> THEN 0 ELSE Head(s) + Suma(Tail(s))

RECURSIVE SumaFn(_)
SumaFn(f) == IF DOMAIN f = {} THEN 0
             ELSE LET k == CHOOSE k \in DOMAIN f : TRUE
                  IN f[k] + SumaFn([j \in DOMAIN f \ {k} |-> f[j]])

Rango1(s) == {s[i] : i \in 1..Len(s)}
Reverso(s) == [i \in 1..Len(s) |-> s[Len(s) + 1 - i]]

RECURSIVE AscInt(_)
AscInt(S) == IF S = {} THEN <<>>
             ELSE LET m == CHOOSE m \in S : \A x \in S : m <= x
                  IN <<m>> \o AscInt(S \ {m})

(***************************************************************************)
(* The inputs.  An upload is a text file: unreadable by read_csv, or a     *)
(* table with a set of columns and a sequence of rows (a row is a function *)
(* from the columns present to the cell values).  A date cell is the text  *)
(* of a date, held as <<year, month, day>>; the empty cell is <<>>.        *)
(***************************************************************************)
Fila(sp, fecha, gbif, lon, lat, oid) ==
    [family |-> "Felidae", species |-> sp, eventDate |-> fecha,
     locality |-> "Osa", occurrenceID |-> oid, gbifID |-> gbif,
     decimalLatitude |-> lat, decimalLongitude |-> lon]

Pool == { Fila("Puma concolor", <<2020, 1, 15>>, 101, 0, 1, "o1"),
          Fila("Panthera onca", <<2021, 1, 3>>, 102, 3, 3, "o2"),
          Fila("Panthera onca", <<>>, 103, 1, 1, "o3"),
          Fila("Puma concolor", <<2020, 2, 29>>, NaNNum, 3, 3, "o4"),
          Fila(NaN, <<2020, 13, 1>>, 105, 1, 1, "o5"),
          Fila("Puma concolor", <<2021, 2, 29>>, 106, 8, 8, "o6") }

Muestra == << Fila("Puma concolor", <<2020, 1, 15>>, 101, 1, 1, "o1"),
              Fila("Panthera onca", <<2021, 1, 3>>, 102, 3, 3, "o2") >>

\* Five records, two of one species and three of the other.
Escenario == << Fila("Puma concolor", <<2019, 5, 2>>, 201, 1, 1, "e1"),
                Fila("Panthera onca", <<2019, 7, 9>>, 202, 3, 3, "e2"),
                Fila("Puma concolor", <<2020, 5, 20>>, 203, 5, 5, "e3"),
                Fila("Panthera onca", <<2020, 7, 1>>, 204, 8, 8, "e4"),
                Fila("Puma concolor", <<2020, 11, 30>>, 205, 4, 2, "e5") >>

Proyecta(r, cols) == [c \in cols |-> r[c]]

SinArchivo == [presente |-> FALSE, legible |-> FALSE, cols |-> {}, rows |-> <<>>]
Ilegible == [presente |-> TRUE, legible |-> FALSE, cols |-> {}, rows |-> <<>>]
Completo(rows) == [presente |-> TRUE, legible |-> TRUE, cols |-> Columnas, rows |-> rows]
\* The sample table with the columns of cols only; cols = {} is the table a
\* comma-separated file yields under delimiter='\t' (no required column).
Parcial(cols) == [presente |-> TRUE, legible |-> TRUE, cols |-> cols,
                  rows |-> [i \in 1..Len(Muestra) |-> Proyecta(Muestra[i], cols)]]

\* The rows of an upload are distinct records (occurrenceID identifies one).
Distintas(n) == {s \in [1..n -> Pool] : \A i, j \in 1..n : s[i] = s[j] => i = j}
Archivos == {Completo(rows) : rows \in UNION {Distintas(n) : n \in 0..MaxRecords}}
            \cup {Parcial(Columnas \ {c}) : c \in Columnas}
            \cup {Parcial({}), Ilegible, Completo(Escenario)}

\* A protected area: identifier, name and an axis-parallel rectangle as its
\* boundary geometry.
Area(id, nombre, x1, y1, x2, y2) ==
    [id |-> id, nombre_asp |-> nombre, x1 |-> x1, y1 |-> y1, x2 |-> x2, y2 |-> y2]

AspPocas == << Area(2, "Corcovado", 0, 0, 4, 4),
               Area(1, "Piedras Blancas", 2, 2, 6, 6),
               Area(3, "Isla del Coco", 10, 10, 12, 12) >>
AspAnidadas == [i \in 1..NAreasAnidadas |-> Area(i, ToString(i), 0, 0, 1 + i, 4)]

\* What the run meets outside the script: the answer of the network fetch
\* and the order sort_values leaves equal counts in (kind='quicksort' is
\* not stable).
Entornos == {[ok |-> FALSE, asp |-> <<>>, desempate |-> "estable"]}
            \cup {[ok |-> TRUE, asp |-> a, desempate |-> d] :
                     a \in {AspPocas, AspAnidadas}, d \in {"estable", "inverso"}}

(***************************************************************************)
(* The steps of the script, in the order of the source.                    *)
(***************************************************************************)
\* Variant of HayArchivo: the guard of line 41 left out.
HayArchivo_siempre(archivo) == TRUE

\* Line 41: processing goes on only with an uploaded file.
HayArchivo(archivo) == archivo.presente

\* Line 43: the rows of the table.
read_csv(archivo) == archivo.rows

\* Lines 45-48: each row gets a point geometry from longitude and latitude.
GeoDataFrame(regs) ==
    [i \in 1..Len(regs) |->
        [c \in DOMAIN regs[i] \cup {"geometry"} |->
            IF c = "geometry"
            THEN <<regs[i].decimalLongitude, regs[i].decimalLatitude>>
            ELSE regs[i][c]]]

\* Line 51: the polygons the fetch returned.
read_file(red) == red.asp

\* Line 56: rows whose species cell is not null.
notna(regs) == SelectSeq(regs, LAMBDA r : r.species # NaN)

\* Line 58, pd.to_datetime on one cell: the empty cell gives NaT, a
\* calendar date gives its components, any other text raises.
Bisiesto(y) == (y % 4 = 0 /\ y % 100 # 0) \/ y % 400 = 0
DiasDelMes(y, m) == IF m = 2 THEN (IF Bisiesto(y) THEN 29 ELSE 28)
                    ELSE IF m \in {4, 6, 9, 11} THEN 30 ELSE 31
FechaValida(texto) ==
    \/ texto = <<>>
    \/ /\ Len(texto) = 3
       /\ texto[2] \in 1..12
       /\ texto[3] \in 1..DiasDelMes(texto[1], texto[2])
to_datetime(texto) ==
    IF texto = <<>> THEN NaT
    ELSE [year |-> texto[1], month |-> texto[2], day |-> texto[3]]
convierte_eventDate(regs) ==
    [i \in 1..Len(regs) |->
        [c \in DOMAIN regs[i] |->
            IF c = "eventDate" THEN to_datetime(regs[i].eventDate) ELSE regs[i][c]]]

\* Line 63: the distinct values in order of first appearance.
RECURSIVE unique(_)
unique(s) ==
    IF s = <<>> THEN <<>>
    ELSE LET antes == unique(SubSeq(s, 1, Len(s) - 1))
             x == s[Len(s)]
         IN IF x \in Rango1(antes) THEN antes ELSE Append(antes, x)

\* Line 64: list.sort() on str, by insertion.
RECURSIVE InsertaAsc(_, _)
InsertaAsc(x, s) ==
    IF s = <<>> THEN <<x>>
    ELSE IF Rango(Head(s)) <= Rango(x) THEN <<Head(s)>> \o InsertaAsc(x, Tail(s))
    ELSE <<x>> \o s
\* Variant of sort: the list left in order of appearance.
sort_omitido(s) == s
RECURSIVE sort(_)
sort(s) == IF s = <<>> THEN <<>> ELSE InsertaAsc(s[Len(s)], sort(SubSeq(s, 1, Len(s) - 1)))

\* Lines 63-64.
lista_de_especies(regs) == sort(unique([i \in 1..Len(regs) |-> regs[i].species]))

\* Line 65, st.selectbox: the value the user set while the widget had these
\* same options, else the first option, else None.
selectbox(opciones, sesion) ==
    IF sesion.hay /\ sesion.opciones = opciones /\ sesion.valor \in Rango1(opciones)
    THEN sesion.valor
    ELSE IF opciones = <<>> THEN None ELSE opciones[1]

\* Variants of Filtrado: no filter at all; the filter applied to the rows the
\* previous run left instead of the cleaned upload.
Filtrado_omitido(regs, especie) == regs
Filtrado_incremental(regs, especie) ==
    SelectSeq(IF status = "done" THEN registros_presencia ELSE regs,
              LAMBDA r : r.species = especie)

\* Line 73.
Filtrado(regs, especie) == SelectSeq(regs, LAMBDA r : r.species = especie)

\* Variant of contains: predicate="intersects", the boundary included.
contains_o_toca(area, punto) ==
    /\ area.x1 <= punto[1] /\ punto[1] <= area.x2
    /\ area.y1 <= punto[2] /\ punto[2] <= area.y2

\* Line 77, predicate="contains": the point is in the polygon's interior.
contains(area, punto) ==
    /\ area.x1 < punto[1] /\ punto[1] < area.x2
    /\ area.y1 < punto[2] /\ punto[2] < area.y2

\* Line 77, how="left": a row per (polygon, contained record), and one row
\* with null right-hand columns for a polygon that contains none.
sjoin(izq, der) ==
    Concat([p \in 1..Len(izq) |->
        LET dentro == SelectSeq(der, LAMBDA r : contains(izq[p], r.geometry))
        IN IF dentro = <<>>
           THEN << [id |-> izq[p].id, gbifID |-> NaNNum] >>
           ELSE [j \in 1..Len(dentro) |-> [id |-> izq[p].id, gbifID |-> dentro[j].gbifID]]])

\* Lines 79-80: groupby("id") with count of the non-null gbifID cells, the
\* groups in ascending order of id.
groupby_id(unidos) ==
    LET ids == AscInt({unidos[i].id : i \in 1..Len(unidos)})
    IN [k \in 1..Len(ids) |->
          [id |-> ids[k],
           cantidad_registros_presencia |->
               Cardinality({i \in 1..Len(unidos) :
                               unidos[i].id = ids[k] /\ unidos[i].gbifID # NaNNum})]]

\* Line 90: the five columns shown, renamed.
Tabla(regs) ==
    [i \in 1..Len(regs) |->
        [Familia |-> regs[i].family, Especie |-> regs[i].species,
         Fecha |-> regs[i].eventDate, Localidad |-> regs[i].locality,
         OrigenDelDato |-> regs[i].occurrenceID]]

\* Variant of grp_anio: nunique() instead of count(), one per group.
grp_anio_grupos(regs) ==
    LET claves == {regs[i].eventDate.year : i \in {j \in 1..Len(regs) : regs[j].eventDate # NaT}}
    IN [y \in claves |-> 1]

\* Lines 94 and 108: groupby on a component of eventDate drops the null
\* keys; count() then counts the rows of each group.
grp_anio(regs) ==
    LET claves == {regs[i].eventDate.year : i \in {j \in 1..Len(regs) : regs[j].eventDate # NaT}}
    IN [y \in claves |-> Cardinality({i \in 1..Len(regs) :
                            regs[i].eventDate # NaT /\ regs[i].eventDate.year = y})]
grp_mes(regs) ==
    LET claves == {regs[i].eventDate.month : i \in {j \in 1..Len(regs) : regs[j].eventDate # NaT}}
    IN [m \in claves |-> Cardinality({i \in 1..Len(regs) :
                            regs[i].eventDate # NaT /\ regs[i].eventDate.month = m})]

\* Line 122: the count rows joined with the polygons on id.
join_asp(conteos, areas) ==
    Concat([k \in 1..Len(conteos) |->
        LET iguales == SelectSeq(areas, LAMBDA a : a.id = conteos[k].id)
        IN [j \in 1..Len(iguales) |->
              [id |-> conteos[k].id, nombre_asp |-> iguales[j].nombre_asp,
               cantidad_registros_presencia |-> conteos[k].cantidad_registros_presencia]]])

\* Line 125, sort_values(ascending=[False]): descending by count; rows of
\* equal count keep their order or come out reversed.
RECURSIVE InsertaDesc(_, _)
InsertaDesc(x, s) ==
    IF s = <<>> THEN <<x>>
    ELSE IF Head(s).cantidad_registros_presencia >= x.cantidad_registros_presencia
         THEN <<Head(s)>> \o InsertaDesc(x, Tail(s))
    ELSE <<x>> \o s
RECURSIVE OrdenaDesc(_)
OrdenaDesc(s) ==
    IF s = <<>> THEN <<>> ELSE InsertaDesc(s[Len(s)], OrdenaDesc(SubSeq(s, 1, Len(s) - 1)))
sort_values(s, desempate) ==
    IF desempate = "estable" THEN OrdenaDesc(s) ELSE OrdenaDesc(Reverso(s))

\* Variant of head: no cut.
head_sin_corte(s, n) == s
head(s, n) == SubSeq(s, 1, IF Len(s) < n THEN Len(s) ELSE n)

\* Lines 124-126: the rows with a positive count, ranked, the first 15.
grafico(conteos, desempate) ==
    LET positivos == SelectSeq(conteos, LAMBDA f : f.cantidad_registros_presencia > 0)
        primeros == head(sort_values(positivos, desempate), TopN)
    IN [i \in 1..Len(primeros) |->
          [nombre_asp |-> primeros[i].nombre_asp,
           cantidad_registros_presencia |-> primeros[i].cantidad_registros_presencia]]

(***************************************************************************)
(* One run of the script.                                                  *)
(***************************************************************************)
\* The rendering calls of the script with their lines; those after line 41
\* are inside the `if`.
El(l, t) == [linea |-> l, tipo |-> t]
Elementos ==
    << El(26, "title"), El(27, "markdown"), El(28, "markdown"), El(29, "markdown"),
       El(37, "header"), El(38, "file_uploader"),
       El(61, "header"), El(65, "selectbox"),
       El(88, "header"), El(89, "subheader"), El(90, "dataframe"),
       El(93, "header"), El(97, "subheader"), El(98, "bar_chart"),
       El(100, "subheader"), El(104, "plotly_chart"),
       El(107, "header"), El(111, "subheader"), El(112, "area_chart"),
       El(114, "subheader"), El(118, "plotly_chart"),
       El(128, "header"), El(130, "subheader"), El(131, "bar_chart"),
       El(133, "subheader"), El(137, "plotly_chart"),
       El(138, "subheader"), El(144, "plotly_chart") >>
LineaIf == 41
UltimaLinea == 144

\* The cleaned rows before the date conversion (lines 43-56).
Limpios(archivo) == notna(GeoDataFrame(read_csv(archivo)))

\* The line of the first statement that raises, UltimaLinea + 1 when none
\* does.  Line 88 concatenates a str and the selectbox value.
Falla(archivo, red, sesion) ==
    LET cols == archivo.cols
        sinFalla == UltimaLinea + 1
    IN IF ~archivo.legible THEN 43
       ELSE IF "decimalLongitude" \notin cols THEN 46
       ELSE IF "decimalLatitude" \notin cols THEN 47
       ELSE IF ~red.ok THEN 51
       ELSE IF "species" \notin cols THEN 56
       ELSE IF "eventDate" \notin cols THEN 58
       ELSE IF \E r \in Rango1(Limpios(archivo)) : ~FechaValida(r.eventDate) THEN 58
       ELSE IF "gbifID" \notin cols THEN 79
       ELSE IF selectbox(lista_de_especies(Limpios(archivo)), sesion) = None THEN 88
       ELSE IF ~({"family", "locality", "occurrenceID"} \subseteq cols) THEN 90
       ELSE sinFalla

\* The value of every script variable and the elements rendered when the
\* run ends, normally or at its first exception.
Run(archivo, red, sesion) ==
    IF ~HayArchivo(archivo)
    THEN [status |-> "prompt", linea |-> 0, llamadas |-> {},
          rendered |-> SelectSeq(Elementos, LAMBDA e : e.linea < LineaIf),
          asp |-> <<>>, lista_especies |-> <<>>, filtro_especie |-> None,
          registros_presencia |-> <<>>, asp_registros |-> <<>>, tabla |-> <<>>,
          registros_presencia_grp_anio |-> <<>>, registros_presencia_grp_mes |-> <<>>,
          asp_registros_grafico |-> <<>>]
    ELSE
    LET f == Falla(archivo, red, sesion)
        hecho(l) == f > l
        crudos == read_csv(archivo)
        geo == GeoDataFrame(crudos)
        areas == read_file(red)
        limpios == notna(geo)
        fechados == convierte_eventDate(limpios)
        lista == lista_de_especies(fechados)
        filtro == selectbox(lista, sesion)
        filtrados == Filtrado(fechados, filtro)
        conteos == groupby_id(sjoin(areas, filtrados))
        conNombre == join_asp(conteos, areas)
    IN [status |-> IF f > UltimaLinea THEN "done" ELSE "error",
        linea |-> IF f > UltimaLinea THEN 0 ELSE f,
        llamadas |-> {"read_csv"} \cup (IF f >= 51 THEN {"read_file"} ELSE {}),
        rendered |-> SelectSeq(Elementos, LAMBDA e : e.linea < f),
        asp |-> IF hecho(51) THEN areas ELSE <<>>,
        lista_especies |-> IF hecho(64) THEN lista ELSE <<>>,
        filtro_especie |-> IF hecho(65) THEN filtro ELSE None,
        registros_presencia |->
            IF hecho(73) THEN filtrados
            ELSE IF hecho(58) THEN fechados
            ELSE IF hecho(56) THEN limpios
            ELSE IF hecho(47) THEN geo
            ELSE IF hecho(43) THEN crudos
            ELSE <<>>,
        asp_registros |->
            IF hecho(122) THEN conNombre
            ELSE IF hecho(80) THEN conteos
            ELSE <<>>,
        tabla |-> IF hecho(90) THEN Tabla(filtrados) ELSE <<>>,
        registros_presencia_grp_anio |-> IF hecho(95) THEN grp_anio(filtrados) ELSE <<>>,
        registros_presencia_grp_mes |-> IF hecho(109) THEN grp_mes(filtrados) ELSE <<>>,
        asp_registros_grafico |->
            IF hecho(126) THEN grafico(conNombre, red.desempate) ELSE <<>>]

Aplica(res) ==
    /\ status' = res.status
    /\ linea' = res.linea
    /\ llamadas' = res.llamadas
    /\ rendered' = res.rendered
    /\ asp' = res.asp
    /\ lista_especies' = res.lista_especies
    /\ filtro_especie' = res.filtro_especie
    /\ registros_presencia' = res.registros_presencia
    /\ asp_registros' = res.asp_registros
    /\ tabla' = res.tabla
    /\ registros_presencia_grp_anio' = res.registros_presencia_grp_anio
    /\ registros_presencia_grp_mes' = res.registros_presencia_grp_mes
    /\ asp_registros_grafico' = res.asp_registros_grafico

\* The selectbox state Streamlit carries into the next run: the value of
\* the widget if the last run rendered it.
SelectboxMostrado == \E i \in 1..Len(rendered) : rendered[i].tipo = "selectbox"
SinSesion == [hay |-> FALSE, opciones |-> <<>>, valor |-> None]
SesionActual ==
    IF SelectboxMostrado
    THEN [hay |-> TRUE, opciones |-> lista_especies, valor |-> filtro_especie]
    ELSE SinSesion

(***************************************************************************)
(* The interactions.  Each one ends with a full run of the script.         *)
(***************************************************************************)
Init ==
    LET res == Run(SinArchivo, CHOOSE e \in Entornos : ~e.ok, SinSesion)
    IN /\ archivo_registros_presencia = SinArchivo
       /\ status = res.status
       /\ linea = res.linea
       /\ llamadas = res.llamadas
       /\ rendered = res.rendered
       /\ asp = res.asp
       /\ lista_especies = res.lista_especies
       /\ filtro_especie = res.filtro_especie
       /\ registros_presencia = res.registros_presencia
       /\ asp_registros = res.asp_registros
       /\ tabla = res.tabla
       /\ registros_presencia_grp_anio = res.registros_presencia_grp_anio
       /\ registros_presencia_grp_mes = res.registros_presencia_grp_mes
       /\ asp_registros_grafico = res.asp_registros_grafico

\* The user uploads a file (line 38).
Upload(archivo, red) ==
    /\ archivo_registros_presencia' = archivo
    /\ \E res \in {Run(archivo, red, SesionActual)} : Aplica(res)

\* The user removes the uploaded file.
Remove(red) ==
    /\ HayArchivo(archivo_registros_presencia)
    /\ archivo_registros_presencia' = SinArchivo
    /\ \E res \in {Run(SinArchivo, red, SesionActual)} : Aplica(res)

\* The user picks another entry of the selectbox (line 65).
Select(especie, red) ==
    /\ SelectboxMostrado
    /\ especie \in Rango1(lista_especies)
    /\ especie # filtro_especie
    /\ UNCHANGED archivo_registros_presencia
    /\ \E res \in {Run(archivo_registros_presencia, red,
                      [hay |-> TRUE, opciones |-> lista_especies, valor |-> especie])} :
          Aplica(res)

\* The user reruns the page.
Rerun(red) ==
    /\ UNCHANGED archivo_registros_presencia
    /\ \E res \in {Run(archivo_registros_presencia, red, SesionActual)} : Aplica(res)

Next ==
    \/ \E archivo \in Archivos, red \in Entornos : Upload(archivo, red)
    \/ \E red \in Entornos : Remove(red)
    \/ \E especie \in Rango1(OrdenLex), red \in Entornos : Select(especie, red)
    \/ \E red \in Entornos : Rerun(red)

Spec == Init /\ [][Next]_vars

(***************************************************************************)
(* What the properties below read off a state, stated on the raw upload    *)
(* and not through the steps of the script.                                *)
(***************************************************************************)
Archivo == archivo_registros_presencia
FiltradoHecho == status = "done" \/ (status = "error" /\ linea > 73)
Agregado == status = "done" \/ (status = "error" /\ linea > 80)

\* The rows of the upload whose species cell is the selection.
Seleccionadas == {i \in 1..Len(Archivo.rows) : Archivo.rows[i].species = filtro_especie}
\* The point of a raw row lies in the interior of a polygon.
EnInterior(a, r) ==
    /\ a.x1 < r.decimalLongitude /\ r.decimalLongitude < a.x2
    /\ a.y1 < r.decimalLatitude /\ r.decimalLatitude < a.y2
Dentro(a) == {i \in Seleccionadas : EnInterior(a, Archivo.rows[i])}
SumaConteos == Suma([k \in 1..Len(asp_registros) |-> asp_registros[k].cantidad_registros_presencia])
Graficos == {"bar_chart", "area_chart", "plotly_chart"}
Mostrado(tipos) == \E i \in 1..Len(rendered) : rendered[i].tipo \in tipos
\* A row without the date column, which the run converts.
SinFecha(r) == [c \in (DOMAIN r) \cap (Archivo.cols \ {"eventDate"}) |-> r[c]]

(***************************************************************************)
(* C1.  Once the aggregation has run, it holds exactly one row per polygon *)
(* and the count of that row is the number of records of the selected      *)
(* species whose point is in the polygon's interior.  The code counts the  *)
(* non-null gbifID cells instead, so a contained record with an empty      *)
(* gbifID is not counted.                                                  *)
(***************************************************************************)
C1_Claim ==
    Agregado =>
        /\ Len(asp_registros) = Len(asp)
        /\ \A p \in 1..Len(asp) :
              \E k \in 1..Len(asp_registros) :
                 /\ asp_registros[k].id = asp[p].id
                 /\ asp_registros[k].cantidad_registros_presencia = Cardinality(Dentro(asp[p]))

(***************************************************************************)
(* C2.  As claimed: the sum of the per-polygon counts is at most the       *)
(* number of filtered records.  Fails when polygons overlap.               *)
(***************************************************************************)
C2_Claim == Agregado => SumaConteos <= Cardinality(Seleccionadas)

\* C2, amended: the sum of the per-polygon counts is at most the number of
\* (polygon, filtered record) pairs with the record's point in the polygon's
\* interior, and at most the number of filtered records when no filtered
\* record lies inside more than one polygon.
C2_Amended ==
    Agregado =>
        /\ SumaConteos <= Suma([p \in 1..Len(asp) |-> Cardinality(Dentro(asp[p]))])
        /\ (\A i \in Seleccionadas :
               Cardinality({p \in 1..Len(asp) : EnInterior(asp[p], Archivo.rows[i])}) <= 1)
           => SumaConteos <= Cardinality(Seleccionadas)

\* A run whose selected species has a record inside two polygons, counted
\* twice.
C2_Witness ==
    /\ status = "done"
    /\ \E i \in Seleccionadas :
          Cardinality({p \in 1..Len(asp) : EnInterior(asp[p], Archivo.rows[i])}) >= 2
    /\ SumaConteos > Cardinality(Seleccionadas)

(***************************************************************************)
(* C3.  As claimed: the yearly and the monthly series each sum to the      *)
(* number of filtered records.  Fails for a record with an empty           *)
(* eventDate, which to_datetime turns into NaT and groupby drops.          *)
(***************************************************************************)
C3_Claim ==
    status = "done" =>
        /\ SumaFn(registros_presencia_grp_anio) = Cardinality(Seleccionadas)
        /\ SumaFn(registros_presencia_grp_mes) = Cardinality(Seleccionadas)

ConFecha == {i \in Seleccionadas : Archivo.rows[i].eventDate # <<>>}

\* C3, amended: the yearly and the monthly series each sum to the number of
\* filtered records whose eventDate is not empty, every year (month) of such
\* a record being a key of the series.
C3_Amended ==
    status = "done" =>
        /\ SumaFn(registros_presencia_grp_anio) = Cardinality(ConFecha)
        /\ SumaFn(registros_presencia_grp_mes) = Cardinality(ConFecha)
        /\ DOMAIN registros_presencia_grp_anio = {Archivo.rows[i].eventDate[1] : i \in ConFecha}
        /\ DOMAIN registros_presencia_grp_mes = {Archivo.rows[i].eventDate[2] : i \in ConFecha}

\* A run with two dated records of the selected species in one year.
C3_Witness ==
    /\ status = "done"
    /\ Cardinality(ConFecha) = 2
    /\ DOMAIN registros_presencia_grp_anio = {2020}
    /\ DOMAIN registros_presencia_grp_mes = {1, 2}

(***************************************************************************)
(* C4.  As claimed: a readable upload with every column and no species     *)
(* value, whose run fetched the polygons, ends with an empty selection     *)
(* list and empty outputs, not in an error.  The code raises at line 88,   *)
(* where the selectbox value None is concatenated to a str.                *)
(***************************************************************************)
C4_Claim ==
    (/\ Archivo.presente /\ Archivo.legible /\ Archivo.cols = Columnas
     /\ \A i \in 1..Len(Archivo.rows) : Archivo.rows[i].species = NaN
     /\ linea # 51)
    => /\ status = "done"
       /\ lista_especies = <<>>
       /\ tabla = <<>>
       /\ asp_registros_grafico = <<>>

(***************************************************************************)
(* C5.  The list offered for selection is the species values of the upload *)
(* that are not null, each once, in ascending order; a record with a null  *)
(* species is in no filtered output.                                       *)
(***************************************************************************)
C5_ListaEspecies ==
    /\ Mostrado({"selectbox"}) =>
          /\ Rango1(lista_especies) =
                {Archivo.rows[i].species : i \in 1..Len(Archivo.rows)} \ {NaN}
          /\ \A i, j \in 1..Len(lista_especies) :
                i < j => Rango(lista_especies[i]) < Rango(lista_especies[j])
    /\ FiltradoHecho =>
          \A i \in 1..Len(registros_presencia) : registros_presencia[i].species # NaN
    /\ \A i \in 1..Len(tabla) : tabla[i].Especie # NaN

\* A finished run on an upload with a null-species record and another one.
C5_Witness ==
    /\ status = "done"
    /\ \E i \in 1..Len(Archivo.rows) : Archivo.rows[i].species = NaN
    /\ Len(lista_especies) = 1
    /\ Len(tabla) = 1

(***************************************************************************)
(* C6.  The filtered records are exactly the rows of the upload whose      *)
(* species is the selection, in their order, and the table has one row per *)
(* such record.                                                            *)
(***************************************************************************)
C6_Filtro ==
    /\ FiltradoHecho =>
          /\ \A i \in 1..Len(registros_presencia) :
                registros_presencia[i].species = filtro_especie
          /\ [i \in 1..Len(registros_presencia) |-> SinFecha(registros_presencia[i])]
                = SelectSeq([i \in 1..Len(Archivo.rows) |-> SinFecha(Archivo.rows[i])],
                            LAMBDA r : r.species = filtro_especie)
    /\ Mostrado({"dataframe"}) =>
          /\ Len(tabla) = Cardinality(Seleccionadas)
          /\ \A i \in 1..Len(tabla) : tabla[i].Especie = filtro_especie

\* A finished run on an upload of five records, two of them of the selected
\* species: the table has exactly two rows.
C6_Witness ==
    /\ status = "done"
    /\ Len(Archivo.rows) = 5
    /\ Cardinality(Seleccionadas) = 2
    /\ filtro_especie = "Panthera onca"
    /\ Len(tabla) = 2

(***************************************************************************)
(* C7.  The per-area display holds at most 15 polygons, each with a        *)
(* positive count, in descending order of count; every polygon left out    *)
(* has a count no greater than any polygon shown, none with a positive     *)
(* count is left out while fewer than 15 are shown, and the display is     *)
(* empty when every count is zero.                                         *)
(***************************************************************************)
NombresMostrados == {asp_registros_grafico[i].nombre_asp : i \in 1..Len(asp_registros_grafico)}
Excluidas == {k \in 1..Len(asp_registros) : asp_registros[k].nombre_asp \notin NombresMostrados}

C7_Grafico ==
    status = "done" =>
        /\ Len(asp_registros_grafico) <= TopN
        /\ \A i \in 1..Len(asp_registros_grafico) :
              /\ asp_registros_grafico[i].cantidad_registros_presencia > 0
              /\ \E k \in 1..Len(asp_registros) :
                    /\ asp_registros[k].nombre_asp = asp_registros_grafico[i].nombre_asp
                    /\ asp_registros[k].cantidad_registros_presencia
                          = asp_registros_grafico[i].cantidad_registros_presencia
        /\ \A i, j \in 1..Len(asp_registros_grafico) :
              i < j => /\ asp_registros_grafico[i].cantidad_registros_presencia
                             >= asp_registros_grafico[j].cantidad_registros_presencia
                       /\ asp_registros_grafico[i].nombre_asp # asp_registros_grafico[j].nombre_asp
        /\ \A k \in Excluidas : \A i \in 1..Len(asp_registros_grafico) :
              asp_registros[k].cantidad_registros_presencia
                 <= asp_registros_grafico[i].cantidad_registros_presencia
        /\ Len(asp_registros_grafico) < TopN =>
              \A k \in Excluidas : asp_registros[k].cantidad_registros_presencia = 0
        /\ SumaConteos = 0 => asp_registros_grafico = <<>>

\* A finished run with more than 15 polygons of positive count, of two
\* different counts: the display is cut at 15.
C7_Witness ==
    /\ status = "done"
    /\ Len(asp_registros_grafico) = TopN
    /\ \E k \in Excluidas : asp_registros[k].cantidad_registros_presencia > 0
    /\ asp_registros_grafico[1].cantidad_registros_presencia
          > asp_registros_grafico[TopN].cantidad_registros_presencia

(***************************************************************************)
(* C8.  As claimed: a run that fails on malformed input (an unreadable     *)
(* file, a missing required column, an unparsable date) has rendered no    *)
(* selection list, table or chart.  The code meets a missing gbifID only   *)
(* at line 79 and a missing family, locality or occurrenceID only at       *)
(* line 90, after the selection list of line 65 is rendered.               *)
(***************************************************************************)
C8_Claim ==
    (status = "error" /\ linea \in {43, 46, 47, 56, 58, 79, 90})
    => ~Mostrado({"selectbox", "dataframe"} \cup Graficos)

(***************************************************************************)
(* C9.  After any sequence of interactions, the filtered records are the   *)
(* rows of the current upload whose species is the current selection and   *)
(* each aggregation row counts the records of the current upload and       *)
(* selection that the code counts for its polygon (point in the interior,  *)
(* gbifID not null): nothing is left from an earlier selection or run.     *)
(***************************************************************************)
Clave(r) == [c \in (DOMAIN r) \cap {"occurrenceID", "gbifID"} |-> r[c]]

C9_DesdeCero ==
    /\ FiltradoHecho =>
          {Clave(registros_presencia[i]) : i \in 1..Len(registros_presencia)}
             = {Clave(Archivo.rows[i]) : i \in Seleccionadas}
    /\ FiltradoHecho => Len(registros_presencia) = Cardinality(Seleccionadas)
    /\ Agregado =>
          \A k \in 1..Len(asp_registros) :
             \E p \in 1..Len(asp) :
                /\ asp[p].id = asp_registros[k].id
                /\ asp_registros[k].cantidad_registros_presencia
                      = Cardinality({i \in Dentro(asp[p]) : Archivo.rows[i].gbifID # NaNNum})

\* A finished run after a selection other than the default one, on an upload
\* of two species.
C9_Witness ==
    /\ status = "done"
    /\ Len(lista_especies) = 2
    /\ filtro_especie = lista_especies[2]
    /\ Len(registros_presencia) = 1

(***************************************************************************)
(* C10.  While no file is uploaded the run parses nothing, fetches         *)
(* nothing, renders the page head and the upload prompt only, and does not *)
(* end in an error.                                                        *)
(***************************************************************************)
C10_SinArchivo ==
    ~Archivo.presente =>
        /\ status = "prompt"
        /\ llamadas = {}
        /\ \A i \in 1..Len(rendered) :
              rendered[i].tipo \in {"title", "markdown", "header", "file_uploader"}
        /\ Mostrado({"file_uploader"})
        /\ ~Mostrado({"selectbox", "dataframe"} \cup Graficos)
        /\ asp = <<>> /\ registros_presencia = <<>>

\* The page with no upload: the prompt is shown and nothing was processed.
C10_Witness ==
    /\ ~Archivo.presente
    /\ status = "prompt"
    /\ Mostrado({"file_uploader"})
====
